---- MODULE Spec2Model ----
(***************************************************************************)
(* Model of lighthouse-core/scripts/extract-crdp-mapping.js: the script    *)
(* that walks the TypeScript AST of crdp.d.ts, enumerates the protocol     *)
(* domains of `interface CrdpClient`, extracts one event map and one       *)
(* command map per domain and writes typings/crdp-mapping.d.ts.            *)
(*                                                                         *)
(* Encoding of the AST.  JavaScript strings (identifiers, rendered types)  *)
(* are sequences of one-character strings, so that concatenation, the     *)
(* regular expression /^on[A-Z]/, indexing, slice and toLowerCase are      *)
(* computed character by character.  An entity name (ts.EntityName) is    *)
(* the sequence of its identifiers: <<P>> is the identifier P, <<A, B>>    *)
(* the qualified name A.B and <<A, B, C>> the qualified name (A.B).C, so   *)
(* ts.isQualifiedName(n) is Len(n) >= 2 and ts.isQualifiedName(n.left) is  *)
(* Len(n) >= 3.  A node is a record whose field `kind` is its SyntaxKind.  *)
(***************************************************************************)
EXTENDS Naturals, Sequences, FiniteSets, TLC

VARIABLES
  tree,             \* sourceRoot: the parsed crdp.d.ts (line 372)
  other,            \* a second input: `tree` with sibling declarations permuted
  pc,               \* position of the script
  crdpDomainNames,  \* line 373
  i,                \* index of domainName in the loops of lines 334 and 356
  j,                \* index of member in the loops of lines 170 and 279
  curMap,           \* eventMap (line 168) or commandMap (line 277) of the current call
  outputStr,        \* outputStr of outputEventMap/outputCommandMap (lines 332, 354)
  crdpStr,          \* line 375
  thrown,           \* the uncaught exception that ended the run, or NoError
  file,             \* content of typings/crdp-mapping.d.ts
  writes,           \* number of times fs.writeFileSync has written the file
  logged,           \* whether 'crdp mappings generated' was printed (line 393)
  steps             \* history: the calls made so far, in order

vars == <<tree, other, pc, crdpDomainNames, i, j, curMap, outputStr, crdpStr, thrown,
          file, writes, logged, steps>>

(***************************************************************************)
(* Bounds of the checked input space.                                      *)
(***************************************************************************)
MaxParams == 3
MaxMembers == 3
MaxDomains == 2
MaxExtras == 2

(***************************************************************************)
(* Strings                                                                 *)
(***************************************************************************)
UPPER == <<"A","B","C","D","E","F","G","H","I","J","K","L","M",
           "N","O","P","Q","R","S","T","U","V","W","X","Y","Z">>
LOWER == <<"a","b","c","d","e","f","g","h","i","j","k","l","m",
           "n","o","p","q","r","s","t","u","v","w","x","y","z">>

IsUpperAZ(c) == \E k \in 1..Len(UPPER) : UPPER[k] = c

\* String.prototype.toLowerCase on one character (line 182)
toLowerCase(c) ==
  IF IsUpperAZ(c) THEN LOWER[CHOOSE k \in 1..Len(UPPER) : UPPER[k] = c] ELSE c

\* String.prototype.slice(from) with a 0-based start (line 182)
slice(s, from) == SubSeq(s, from + 1, Len(s))

\* /^on[A-Z]/.test(s) (line 179)
MatchesOnUpper(s) ==
  /\ Len(s) >= 3
  /\ s[1] = "o"
  /\ s[2] = "n"
  /\ IsUpperAZ(s[3])

sVoid == <<"v","o","i","d">>
sVoidOr == <<"v","o","i","d"," ","|"," ">>
sCrdpDot == <<"C","r","d","p",".">>
sDot == <<".">>
sClient == <<"C","l","i","e","n","t">>
sCommands == <<"C","o","m","m","a","n","d","s">>
sCrdpClient == <<"C","r","d","p","C","l","i","e","n","t">>
sPromise == <<"P","r","o","m","i","s","e">>

(***************************************************************************)
(* Values: undefined, null, results and exceptions                         *)
(***************************************************************************)
Undefined == [kind |-> "undefined"]
Null == [kind |-> "null"]

NoError == [type |-> "none", msg |-> "", n |-> 0, name |-> <<>>, name2 |-> <<>>]

\* new Error(...): msg is the message's fixed text, n/name/name2 what it interpolates
Err(m, count, nm, nm2) ==
  [type |-> "Error", msg |-> m, n |-> count, name |-> nm, name2 |-> nm2]

\* the TypeError the engine raises on reading a property of undefined
TypeErr(m) ==
  [type |-> "TypeError", msg |-> m, n |-> 0, name |-> <<>>, name2 |-> <<>>]

Ok(v) == [ok |-> TRUE, val |-> v, err |-> NoError]
Throw(e) == [ok |-> FALSE, val |-> Undefined, err |-> e]

(***************************************************************************)
(* AST node constructors                                                   *)
(***************************************************************************)
Keyword(k) == [kind |-> k]
TypeReference(entityName, hasArgs, args) ==
  [kind |-> "TypeReference", typeName |-> entityName,
   hasTypeArguments |-> hasArgs, typeArguments |-> args]
Parameter(t) == [type |-> t]
FunctionType(params, ret) ==
  [kind |-> "FunctionType", parameters |-> params, type |-> ret]

PropertySignature(isIdent, nm, optional, t) ==
  [kind |-> "PropertySignature", nameIsIdentifier |-> isIdent, name |-> nm,
   questionToken |-> optional, parameters |-> <<>>, type |-> t]
MethodSignature(isIdent, nm, optional, params) ==
  [kind |-> "MethodSignature", nameIsIdentifier |-> isIdent, name |-> nm,
   questionToken |-> optional, parameters |-> params, type |-> Undefined]
IndexSignature ==
  [kind |-> "IndexSignature", nameIsIdentifier |-> FALSE, name |-> <<>>,
   questionToken |-> FALSE, parameters |-> <<>>, type |-> Undefined]

InterfaceDeclaration(nm, mems) ==
  [kind |-> "InterfaceDeclaration", name |-> nm, members |-> mems, body |-> <<>>]
ModuleDeclaration(nm, stmts) ==
  [kind |-> "ModuleDeclaration", name |-> nm, members |-> <<>>, body |-> stmts]
SourceFile(stmts) ==
  [kind |-> "SourceFile", name |-> <<>>, members |-> <<>>, body |-> stmts]

(***************************************************************************)
(* findFirstInterfaceOrModule                                              *)
(***************************************************************************)
\* Identifier.escapedText as the compiler sets it: the text, with one more
\* underscore in front when the text starts with two underscores
escapedText(text) ==
  IF Len(text) >= 2 /\ text[1] = "_" /\ text[2] = "_" THEN <<"_">> \o text ELSE text

RECURSIVE walker(_, _)
RECURSIVE forEachChildWalker(_, _, _)

RECURSIVE forEachChildWalkerNoBacktrack(_, _, _)
\* mutant: the search of a module that holds no match ends the whole search
forEachChildWalkerNoBacktrack(children, k, targetName) ==
  IF k > Len(children) THEN Undefined
  ELSE LET r == walker(children[k], targetName)
       IN IF r.kind # "undefined" THEN r
          ELSE IF children[k].kind = "ModuleDeclaration" THEN Undefined
          ELSE forEachChildWalkerNoBacktrack(children, k + 1, targetName)

\* ts.forEachChild(node, walker) from child k on: the first truthy result.
\* The children that can hold a declaration are the statements of a source
\* file or module body; an interface's children hold none.
forEachChildWalker(children, k, targetName) ==
  IF k > Len(children) THEN Undefined
  ELSE LET r == walker(children[k], targetName)
       IN IF r.kind # "undefined" THEN r
          ELSE forEachChildWalker(children, k + 1, targetName)

\* lines 48-57: an interface is compared by its name's escapedText, a module
\* by its name's text
walker(node, targetName) ==
  IF node.kind = "InterfaceDeclaration" /\ escapedText(node.name) = targetName THEN node
  ELSE IF node.kind = "ModuleDeclaration" /\ node.name = targetName THEN node
  ELSE forEachChildWalker(node.body, 1, targetName)

findFirstInterfaceOrModule(rootNode, targetName) == walker(rootNode, targetName)

(***************************************************************************)
(* getCrdpDomainNames                                                      *)
(***************************************************************************)
RECURSIVE domainProperties(_, _)
\* the forEachChild callback of lines 78-84 over the children from k on;
\* the members of an interface are its only children that can be property
\* signatures (a module's children are its name and its body)
domainProperties(mems, k) ==
  IF k > Len(mems) THEN <<>>
  ELSE LET node == mems[k]
       IN (IF node.kind = "PropertySignature" /\ node.nameIsIdentifier
           THEN <<node.name>> ELSE <<>>)
          \o domainProperties(mems, k + 1)

getCrdpDomainNames(node) ==
  LET crdpClientInterface == findFirstInterfaceOrModule(node, sCrdpClient)
  IN IF crdpClientInterface.kind = "undefined"
     THEN Throw(Err("no interface CrdpClient found in typing file", 0, <<>>, <<>>))
     ELSE Ok(domainProperties(crdpClientInterface.members, 1))

(***************************************************************************)
(* getTypeName, getParamType, getEventListenerParamType                    *)
(***************************************************************************)
getTypeName(typeNode, debugName) ==
  IF Len(typeNode.typeName) >= 2
  THEN IF Len(typeNode.typeName) >= 3
       THEN Throw(Err("unsupported triple nested type name in", 0, debugName, <<>>))
       ELSE Ok([domain |-> typeNode.typeName[1], type |-> typeNode.typeName[2]])
  ELSE Throw(Err("unexpected type node in", 0, debugName, <<>>))

\* mutant: the count check is off by one, two parameters pass as none
getParamTypeOffByOne(functionNode, debugName) ==
  LET paramCount == Len(functionNode.parameters)
  IN IF paramCount = 1
     THEN LET paramType == functionNode.parameters[1].type
          IN IF paramType.kind # "undefined" /\ paramType.kind = "TypeReference"
             THEN Ok(paramType)
             ELSE Throw(Err("unexpected param passed to", 0, debugName, <<>>))
     ELSE IF paramCount > 2
     THEN Throw(Err("found N parameters passed to", paramCount, debugName, <<>>))
     ELSE Ok(Null)

getParamType(functionNode, debugName) ==
  LET paramCount == Len(functionNode.parameters)
  IN IF paramCount = 1
     THEN LET paramType == functionNode.parameters[1].type
          IN IF paramType.kind # "undefined" /\ paramType.kind = "TypeReference"
             THEN Ok(paramType)
             ELSE Throw(Err("unexpected param passed to", 0, debugName, <<>>))
     ELSE IF paramCount > 1
     THEN Throw(Err("found N parameters passed to", paramCount, debugName, <<>>))
     ELSE Ok(Null)

getEventListenerParamType(methodNode, methodName) ==
  IF Len(methodNode.parameters) > 1
  THEN Throw(Err("found N parameters passed to", Len(methodNode.parameters),
                 methodName, <<>>))
  ELSE IF Len(methodNode.parameters) = 0
  \* methodNode.parameters[0] is undefined: reading .type of it throws a
  \* TypeError (the engine's message, whose wording depends on its version)
  THEN Throw(TypeErr("Cannot read property 'type' of undefined"))
  ELSE LET listenerTypeNode == methodNode.parameters[1].type
       IN IF listenerTypeNode.kind = "undefined"
             \/ listenerTypeNode.kind # "FunctionType"
          THEN Throw(Err("found unexpected argument passed to", 0, methodName, <<>>))
          ELSE getParamType(listenerTypeNode, methodName)

(***************************************************************************)
(* Map<string, V>: a sequence of [key, val] in insertion order             *)
(***************************************************************************)
MapHas(m, k) == \E x \in 1..Len(m) : m[x].key = k

\* Map.prototype.set: a present key keeps its position and takes the new
\* value, an absent key is appended
MapSet(m, k, v) ==
  IF MapHas(m, k)
  THEN [x \in 1..Len(m) |-> IF m[x].key = k THEN [key |-> k, val |-> v] ELSE m[x]]
  ELSE Append(m, [key |-> k, val |-> v])

(***************************************************************************)
(* getEventMap                                                             *)
(***************************************************************************)
\* lines 160-165: the interface whose members the loop of line 170 visits
eventInterfaceOf(sourceRoot, domainName) ==
  LET eventInterfaceName == domainName \o sClient
      eventInterface == findFirstInterfaceOrModule(sourceRoot, eventInterfaceName)
  IN IF eventInterface.kind = "undefined"
        \/ eventInterface.kind # "InterfaceDeclaration"
     THEN Throw(Err("Events interface not found for domain", 0, domainName, <<>>))
     ELSE Ok(eventInterface)

\* mutant: the `on` prefix is dropped but the case is kept
eventNameOfKeepCase(domainName, methodName) ==
  domainName \o sDot \o slice(methodName, 2)

\* lines 182-183
eventNameOf(domainName, methodName) ==
  LET eventString == <<toLowerCase(methodName[3])>> \o slice(methodName, 3)
  IN domainName \o sDot \o eventString

\* one iteration of the loop of lines 170-193: the map after it, or the throw
eventMember(member, domainName, eventMap) ==
  IF member.kind # "MethodSignature" THEN Ok(eventMap)
  ELSE IF ~member.nameIsIdentifier
  THEN Throw(Err("Bad event method found", 0, <<>>, <<>>))
  ELSE LET methodName == member.name
       IN IF ~MatchesOnUpper(methodName)
          THEN Throw(Err("bad method name found: ", 0, methodName, <<>>))
          ELSE LET eventName == eventNameOf(domainName, methodName)
                   rawEventType == getEventListenerParamType(member, methodName)
               IN IF ~rawEventType.ok THEN Throw(rawEventType.err)
                  ELSE IF rawEventType.val.kind # "null"
                  THEN LET tn == getTypeName(rawEventType.val, methodName)
                       IN IF ~tn.ok THEN Throw(tn.err)
                          ELSE Ok(MapSet(eventMap, eventName,
                                  sCrdpDot \o tn.val.domain \o sDot \o tn.val.type))
                  ELSE Ok(MapSet(eventMap, eventName, sVoid))

RECURSIVE eventMembers(_, _, _, _)
eventMembers(mems, k, domainName, eventMap) ==
  IF k > Len(mems) THEN Ok(eventMap)
  ELSE LET r == eventMember(mems[k], domainName, eventMap)
       IN IF ~r.ok THEN r ELSE eventMembers(mems, k + 1, domainName, r.val)

getEventMap(sourceRoot, domainName) ==
  LET itf == eventInterfaceOf(sourceRoot, domainName)
  IN IF ~itf.ok THEN Throw(itf.err)
     ELSE eventMembers(itf.val.members, 1, domainName, <<>>)

(***************************************************************************)
(* getPromisedReturnType                                                   *)
(***************************************************************************)
\* mutant: the number of type arguments is not checked
getPromisedReturnTypeAnyArity(functionNode, debugName) ==
  LET returnTypeNode == functionNode.type
      fallThrough == Throw(Err("unexpected return type for", 0, debugName, <<>>))
  IN IF returnTypeNode.kind # "undefined" /\ returnTypeNode.kind = "TypeReference"
     THEN IF \/ Len(returnTypeNode.typeName) # 1
             \/ returnTypeNode.typeName[1] # sPromise
             \/ ~returnTypeNode.hasTypeArguments
             \/ Len(returnTypeNode.typeArguments) = 0
          THEN Throw(Err("command has unexpected return type", 0, debugName, <<>>))
          ELSE LET payloadType == returnTypeNode.typeArguments[1]
               IN IF payloadType.kind = "VoidKeyword" THEN Ok(sVoid)
                  ELSE IF payloadType.kind = "TypeReference"
                  THEN LET tn == getTypeName(payloadType, debugName)
                       IN IF ~tn.ok THEN Throw(tn.err)
                          ELSE Ok(tn.val.domain \o sDot \o tn.val.type)
                  ELSE fallThrough
     ELSE fallThrough

getPromisedReturnType(functionNode, debugName) ==
  LET returnTypeNode == functionNode.type
      fallThrough == Throw(Err("unexpected return type for", 0, debugName, <<>>))
  IN IF returnTypeNode.kind # "undefined" /\ returnTypeNode.kind = "TypeReference"
     THEN IF \/ Len(returnTypeNode.typeName) # 1
             \/ returnTypeNode.typeName[1] # sPromise
             \/ ~returnTypeNode.hasTypeArguments
          THEN Throw(Err("command has unexpected return type", 0, debugName, <<>>))
          ELSE IF Len(returnTypeNode.typeArguments) # 1
          THEN Throw(Err("unexpected param(s) passed to", 0, debugName, <<>>))
          ELSE LET payloadType == returnTypeNode.typeArguments[1]
               IN IF payloadType.kind = "VoidKeyword" THEN Ok(sVoid)
                  ELSE IF payloadType.kind = "TypeReference"
                  THEN LET tn == getTypeName(payloadType, debugName)
                       IN IF ~tn.ok THEN Throw(tn.err)
                          ELSE Ok(tn.val.domain \o sDot \o tn.val.type)
                  ELSE fallThrough
     ELSE fallThrough

(***************************************************************************)
(* isWeakInterface                                                         *)
(***************************************************************************)
\* mutant: members that are not property signatures count as required
everyMemberOptionalStrict(mems) ==
  \A k \in 1..Len(mems) :
    IF mems[k].kind # "PropertySignature" THEN FALSE
    ELSE mems[k].questionToken

\* lines 252-258: Array.prototype.every over the members
everyMemberOptional(mems) ==
  \A k \in 1..Len(mems) :
    IF mems[k].kind # "PropertySignature" THEN TRUE
    ELSE mems[k].questionToken

isWeakInterface(sourceRoot, domainName, interfaceName) ==
  LET domainInterface == findFirstInterfaceOrModule(sourceRoot, domainName)
  IN IF domainInterface.kind = "undefined"
        \/ domainInterface.kind # "ModuleDeclaration"
     THEN Throw(Err("domain not found", 0, domainName, <<>>))
     ELSE LET targetInterface ==
                findFirstInterfaceOrModule(domainInterface, interfaceName)
          IN IF targetInterface.kind = "undefined"
                \/ targetInterface.kind # "InterfaceDeclaration"
             THEN Throw(Err("interface not found within domain", 0,
                            interfaceName, domainName))
             ELSE Ok(everyMemberOptional(targetInterface.members))

(***************************************************************************)
(* getCommandMap                                                           *)
(***************************************************************************)
\* lines 269-274
commandInterfaceOf(sourceRoot, domainName) ==
  LET commandInterfaceName == domainName \o sCommands
      commandInterface == findFirstInterfaceOrModule(sourceRoot, commandInterfaceName)
  IN IF commandInterface.kind = "undefined"
        \/ commandInterface.kind # "InterfaceDeclaration"
     THEN Throw(Err("Command interface not found for domain", 0, domainName, <<>>))
     ELSE Ok(commandInterface)

\* lines 294-305: the rendered paramsType of a command function, or the throw
paramsTypeOf(sourceRoot, commandFn, commandName) ==
  LET rawParamsTypeNode == getParamType(commandFn, commandName)
  IN IF ~rawParamsTypeNode.ok THEN Throw(rawParamsTypeNode.err)
     ELSE IF rawParamsTypeNode.val.kind = "null" THEN Ok(sVoid)
     ELSE LET tn == getTypeName(rawParamsTypeNode.val, commandName)
          IN IF ~tn.ok THEN Throw(tn.err)
             ELSE LET paramsType == sCrdpDot \o tn.val.domain \o sDot \o tn.val.type
                      weak == isWeakInterface(sourceRoot, tn.val.domain, tn.val.type)
                  IN IF ~weak.ok THEN Throw(weak.err)
                     ELSE IF weak.val THEN Ok(sVoidOr \o paramsType)
                     ELSE Ok(paramsType)

\* lines 307-309
returnTypeOf(commandFn, commandName) ==
  LET rawReturnTypeName == getPromisedReturnType(commandFn, commandName)
  IN IF ~rawReturnTypeName.ok THEN Throw(rawReturnTypeName.err)
     ELSE IF rawReturnTypeName.val = sVoid THEN Ok(sVoid)
     ELSE Ok(sCrdpDot \o rawReturnTypeName.val)

\* one iteration of the loop of lines 279-312: the map after it, or the throw
commandMember(sourceRoot, member, domainName, commandMap) ==
  IF member.kind # "PropertySignature" THEN Ok(commandMap)
  ELSE IF ~member.nameIsIdentifier
  THEN Throw(Err("Bad event method found ", 0, <<>>, <<>>))
  ELSE LET commandName == domainName \o sDot \o member.name
           commandFn == member.type
       IN IF commandFn.kind = "undefined" \/ commandFn.kind # "FunctionType"
          THEN Throw(Err("Command did not have an assigned function", 0,
                         commandName, <<>>))
          ELSE LET paramsType == paramsTypeOf(sourceRoot, commandFn, commandName)
               IN IF ~paramsType.ok THEN Throw(paramsType.err)
                  ELSE LET returnType == returnTypeOf(commandFn, commandName)
                       IN IF ~returnType.ok THEN Throw(returnType.err)
                          ELSE Ok(MapSet(commandMap, commandName,
                                         [paramsType |-> paramsType.val,
                                          returnType |-> returnType.val]))

RECURSIVE commandMembers(_, _, _, _, _)
commandMembers(sourceRoot, mems, k, domainName, commandMap) ==
  IF k > Len(mems) THEN Ok(commandMap)
  ELSE LET r == commandMember(sourceRoot, mems[k], domainName, commandMap)
       IN IF ~r.ok THEN r
          ELSE commandMembers(sourceRoot, mems, k + 1, domainName, r.val)

getCommandMap(sourceRoot, domainName) ==
  LET itf == commandInterfaceOf(sourceRoot, domainName)
  IN IF ~itf.ok THEN Throw(itf.err)
     ELSE commandMembers(sourceRoot, itf.val.members, 1, domainName, <<>>)

(***************************************************************************)
(* Rendered text.  The output is kept as the sequence of its pieces: the   *)
(* fixed blocks, one piece per event line (line 337) and one per command   *)
(* record (lines 359-362, four text lines), each holding the strings that  *)
(* the template interpolates.                                              *)
(***************************************************************************)
HeaderPiece == [piece |-> "headerBlock + declare global { module LH {"]
EventsOpen == [piece |-> "export interface CrdpEvents {"]
CommandsOpen == [piece |-> "export interface CrdpCommands {"]
BlockClose == [piece |-> "}"]
NewlinePiece == [piece |-> "newline"]
FooterPiece == [piece |-> "} } export {}"]
EventPiece(eventName, eventType) ==
  [piece |-> "event", key |-> eventName, eventType |-> eventType]
CommandPiece(commandName, paramsType, returnType) ==
  [piece |-> "command", key |-> commandName, paramsType |-> paramsType,
   returnType |-> returnType]

\* lines 336-338
eventPieces(eventMap) ==
  [x \in 1..Len(eventMap) |-> EventPiece(eventMap[x].key, eventMap[x].val)]

\* lines 358-363
commandPieces(commandsMap) ==
  [x \in 1..Len(commandsMap) |->
     CommandPiece(commandsMap[x].key, commandsMap[x].val.paramsType,
                  commandsMap[x].val.returnType)]

\* what typings/crdp-mapping.d.ts holds before the run
OldFile == <<[piece |-> "previous content"]>>

Step(call, domainName) == [call |-> call, domain |-> domainName]

(***************************************************************************)
(* The script (lines 371-394), one action per call or loop iteration.      *)
(* An exception is never caught: it ends the run where it is thrown, pc    *)
(* keeps the place and `thrown` holds the error.                           *)
(***************************************************************************)
Running == thrown = NoError

\* lines 371-378, and the entry of outputEventMap (line 332)
CallGetCrdpDomainNames ==
  /\ Running /\ pc = "getCrdpDomainNames"
  /\ steps' = Append(steps, Step("getCrdpDomainNames", <<>>))
  /\ LET r == getCrdpDomainNames(tree)
     IN IF r.ok
        THEN /\ crdpDomainNames' = r.val
             /\ crdpStr' = <<HeaderPiece>>
             /\ outputStr' = <<EventsOpen>>
             /\ i' = 1
             /\ pc' = "outputEventMap"
             /\ UNCHANGED thrown
        ELSE /\ thrown' = r.err
             /\ UNCHANGED <<crdpDomainNames, crdpStr, outputStr, i, pc>>
  /\ UNCHANGED <<tree, other, j, curMap, file, writes, logged>>

\* line 335 into lines 160-168
CallGetEventMap ==
  /\ Running /\ pc = "outputEventMap" /\ i <= Len(crdpDomainNames)
  /\ steps' = Append(steps, Step("getEventMap", crdpDomainNames[i]))
  /\ LET itf == eventInterfaceOf(tree, crdpDomainNames[i])
     IN IF itf.ok
        THEN /\ pc' = "getEventMap" /\ j' = 1 /\ curMap' = <<>>
             /\ UNCHANGED thrown
        ELSE /\ thrown' = itf.err
             /\ UNCHANGED <<pc, j, curMap>>
  /\ UNCHANGED <<tree, other, crdpDomainNames, i, outputStr, crdpStr, file, writes, logged>>

\* the members the loop of line 170 is iterating over
CurrentEventMembers == eventInterfaceOf(tree, crdpDomainNames[i]).val.members

\* mutant: the error of a member is swallowed and the loop goes on
EventMemberStepSwallowing ==
  /\ Running /\ pc = "getEventMap" /\ j <= Len(CurrentEventMembers)
  /\ LET r == eventMember(CurrentEventMembers[j], crdpDomainNames[i], curMap)
     IN /\ curMap' = (IF r.ok THEN r.val ELSE curMap)
        /\ j' = j + 1
        /\ UNCHANGED thrown
  /\ UNCHANGED <<tree, other, pc, crdpDomainNames, i, outputStr, crdpStr, file,
                 writes, logged, steps>>

\* one iteration of lines 170-193
EventMemberStep ==
  /\ Running /\ pc = "getEventMap" /\ j <= Len(CurrentEventMembers)
  /\ LET r == eventMember(CurrentEventMembers[j], crdpDomainNames[i], curMap)
     IN IF r.ok
        THEN /\ curMap' = r.val /\ j' = j + 1
             /\ UNCHANGED thrown
        ELSE /\ thrown' = r.err
             /\ UNCHANGED <<curMap, j>>
  /\ UNCHANGED <<tree, other, pc, crdpDomainNames, i, outputStr, crdpStr, file, writes,
                 logged, steps>>

\* line 195, then lines 336-338
ReturnEventMap ==
  /\ Running /\ pc = "getEventMap" /\ j > Len(CurrentEventMembers)
  /\ outputStr' = outputStr \o eventPieces(curMap)
  /\ i' = i + 1
  /\ pc' = "outputEventMap"
  /\ steps' = Append(steps, Step("return getEventMap", crdpDomainNames[i]))
  /\ UNCHANGED <<tree, other, crdpDomainNames, j, curMap, crdpStr, thrown, file, writes,
                 logged>>

\* mutant: the text is persisted as soon as the events block is complete
ReturnOutputEventMapPersisting ==
  /\ Running /\ pc = "outputEventMap" /\ i > Len(crdpDomainNames)
  /\ crdpStr' = crdpStr \o outputStr \o <<BlockClose, NewlinePiece>>
  /\ file' = crdpStr'
  /\ writes' = writes + 1
  /\ outputStr' = <<CommandsOpen>>
  /\ i' = 1
  /\ pc' = "outputCommandMap"
  /\ UNCHANGED <<tree, other, crdpDomainNames, j, curMap, thrown, logged, steps>>

\* lines 341-343, 380-381, and the entry of outputCommandMap (line 354)
ReturnOutputEventMap ==
  /\ Running /\ pc = "outputEventMap" /\ i > Len(crdpDomainNames)
  /\ crdpStr' = crdpStr \o outputStr \o <<BlockClose, NewlinePiece>>
  /\ outputStr' = <<CommandsOpen>>
  /\ i' = 1
  /\ pc' = "outputCommandMap"
  /\ UNCHANGED <<tree, other, crdpDomainNames, j, curMap, thrown, file, writes, logged,
                 steps>>

\* line 357 into lines 269-277
CallGetCommandMap ==
  /\ Running /\ pc = "outputCommandMap" /\ i <= Len(crdpDomainNames)
  /\ steps' = Append(steps, Step("getCommandMap", crdpDomainNames[i]))
  /\ LET itf == commandInterfaceOf(tree, crdpDomainNames[i])
     IN IF itf.ok
        THEN /\ pc' = "getCommandMap" /\ j' = 1 /\ curMap' = <<>>
             /\ UNCHANGED thrown
        ELSE /\ thrown' = itf.err
             /\ UNCHANGED <<pc, j, curMap>>
  /\ UNCHANGED <<tree, other, crdpDomainNames, i, outputStr, crdpStr, file, writes, logged>>

\* the members the loop of line 279 is iterating over
CurrentCommandMembers == commandInterfaceOf(tree, crdpDomainNames[i]).val.members

\* one iteration of lines 279-312
CommandMemberStep ==
  /\ Running /\ pc = "getCommandMap" /\ j <= Len(CurrentCommandMembers)
  /\ LET r == commandMember(tree, CurrentCommandMembers[j], crdpDomainNames[i], curMap)
     IN IF r.ok
        THEN /\ curMap' = r.val /\ j' = j + 1
             /\ UNCHANGED thrown
        ELSE /\ thrown' = r.err
             /\ UNCHANGED <<curMap, j>>
  /\ UNCHANGED <<tree, other, pc, crdpDomainNames, i, outputStr, crdpStr, file, writes,
                 logged, steps>>

\* line 314, then lines 358-363
ReturnCommandMap ==
  /\ Running /\ pc = "getCommandMap" /\ j > Len(CurrentCommandMembers)
  /\ outputStr' = outputStr \o commandPieces(curMap)
  /\ i' = i + 1
  /\ pc' = "outputCommandMap"
  /\ steps' = Append(steps, Step("return getCommandMap", crdpDomainNames[i]))
  /\ UNCHANGED <<tree, other, crdpDomainNames, j, curMap, crdpStr, thrown, file, writes,
                 logged>>

\* lines 366-368 and 382-390
ReturnOutputCommandMap ==
  /\ Running /\ pc = "outputCommandMap" /\ i > Len(crdpDomainNames)
  /\ crdpStr' = crdpStr \o outputStr \o <<BlockClose, FooterPiece>>
  /\ pc' = "consoleLog"
  /\ UNCHANGED <<tree, other, crdpDomainNames, i, j, curMap, outputStr, thrown, file,
                 writes, logged, steps>>

\* line 393: the message is printed before the file is written
ConsoleLog ==
  /\ Running /\ pc = "consoleLog"
  /\ logged' = TRUE
  /\ steps' = Append(steps, Step("consoleLog", <<>>))
  /\ pc' = "writeFileSync"
  /\ UNCHANGED <<tree, other, crdpDomainNames, i, j, curMap, outputStr, crdpStr, thrown,
                 file, writes>>

\* the error fs.writeFileSync throws when the file system refuses the call:
\* the path cannot be opened (EISDIR, EACCES) or the text cannot be written
\* in full (EFBIG, ENOSPC)
WriteError ==
  [type |-> "Error", msg |-> "fs.writeFileSync failed",
   n |-> 0, name |-> <<>>, name2 |-> <<>>]

\* a piece of which only a part, not empty and not the whole, was written
PartOf(p) == [piece |-> "part", of |-> p]

\* what a write of `text` that stops early leaves in the file, which was
\* truncated when it was opened: the first k pieces, then nothing or a part
\* of the next piece
PartialTexts(text) ==
  {SubSeq(text, 1, k) : k \in 0..(Len(text) - 1)}
  \cup {SubSeq(text, 1, k) \o <<PartOf(text[k + 1])>> : k \in 0..(Len(text) - 1)}

\* line 394: the file gets the whole text; or the path cannot be opened and
\* the call throws with the file as it was; or the write stops early and the
\* call throws with a partial text in the file
WriteFileSync ==
  /\ Running /\ pc = "writeFileSync"
  /\ steps' = Append(steps, Step("writeFileSync", <<>>))
  /\ \/ /\ file' = crdpStr
        /\ writes' = writes + 1
        /\ pc' = "done"
        /\ UNCHANGED thrown
     \/ /\ thrown' = WriteError
        /\ UNCHANGED <<file, writes, pc>>
     \/ /\ thrown' = WriteError
        /\ file' \in PartialTexts(crdpStr)
        /\ writes' = writes + 1
        /\ UNCHANGED pc
  /\ UNCHANGED <<tree, other, crdpDomainNames, i, j, curMap, outputStr, crdpStr, logged>>

Next ==
  \/ CallGetCrdpDomainNames
  \/ CallGetEventMap
  \/ EventMemberStep
  \/ ReturnEventMap
  \/ ReturnOutputEventMap
  \/ CallGetCommandMap
  \/ CommandMemberStep
  \/ ReturnCommandMap
  \/ ReturnOutputCommandMap
  \/ ConsoleLog
  \/ WriteFileSync

(***************************************************************************)
(* The input: the syntax trees the run is checked on.  Every tree is one   *)
(* that ts.createSourceFile can return.  The trees come in families; each  *)
(* varies one part of the schema over all its shapes and keeps the rest    *)
(* well formed.                                                            *)
(***************************************************************************)
SeqsUpTo(S, n) == UNION {[1..k -> S] : k \in 0..n}

Net == <<"N","e","t">>
Page == <<"P","a","g","e">>
Req == <<"R","e","q">>
Opt == <<"O","p","t">>
Par == <<"P","a","r">>
Gone == <<"G","o","n","e">>
Crdp == <<"C","r","d","p">>
\* names with leading underscores: __a, and ___a, which is what the
\* escapedText of __a reads
Und2 == <<"_","_","a">>
Und3 == <<"_","_","_","a">>
onA == <<"o","n","A">>
onBc == <<"o","n","B","c">>
cmdA == <<"a">>
cmdB == <<"b","B">>

StringType == Keyword("StringKeyword")
VoidType == Keyword("VoidKeyword")
Ref(entityName) == TypeReference(entityName, FALSE, <<>>)
Generic(entityName, args) == TypeReference(entityName, TRUE, args)

\* the declared types a parameter is tried with
ParamTypes ==
  {Undefined, StringType, Ref(<<Req>>), Ref(<<Net, Req>>), Ref(<<Net, Opt>>),
   Ref(<<Crdp, Net, Req>>), Ref(<<Net, Gone>>), Ref(<<Page, Req>>)}

\* parameter lists of up to MaxParams parameters: none, or a first parameter
\* of a type in S followed by up to MaxParams - 1 string parameters
ParamLists(S) ==
  {<<>>} \cup
  {<<Parameter(t)>> \o [x \in 1..k |-> Parameter(StringType)] :
     t \in S, k \in 0..(MaxParams - 1)}

Callbacks == {FunctionType(ps, VoidType) : ps \in ParamLists(ParamTypes)}

ListenerParamTypes == {Undefined, StringType, Ref(<<Net, Req>>)} \cup Callbacks

Listener(nm, callbackParams) ==
  MethodSignature(TRUE, nm, FALSE, <<Parameter(FunctionType(callbackParams, VoidType))>>)

\* well-formed members of a `Client` interface
GoodEventMembers ==
  {Listener(onA, <<Parameter(Ref(<<Net, Req>>))>>),
   Listener(onBc, <<Parameter(Ref(<<Net, Opt>>))>>),
   IndexSignature}

EventMemberShapes ==
  GoodEventMembers
  \cup {MethodSignature(TRUE, onA, FALSE, ps) : ps \in ParamLists(ListenerParamTypes)}
  \cup {MethodSignature(TRUE, nm, FALSE, ps) :
          nm \in {<<"o","n">>, <<"o","n","a">>, <<"O","n","A">>, <<"f","o","o">>},
          ps \in {<<>>, <<Parameter(FunctionType(<<>>, VoidType))>>,
                  <<Parameter(StringType), Parameter(StringType)>>}}
  \cup {MethodSignature(FALSE, onA, FALSE, ps) :
          ps \in {<<Parameter(FunctionType(<<>>, VoidType))>>,
                  <<Parameter(StringType), Parameter(StringType)>>}}
  \cup {PropertySignature(TRUE, onA, FALSE, StringType)}

EventMemberLists ==
  {pre \o <<m>> : pre \in SeqsUpTo(GoodEventMembers, MaxMembers - 1),
                  m \in EventMemberShapes}
  \cup {<<>>}

\* the declared return types a command is tried with
ReturnTypes ==
  {Undefined, VoidType, StringType,
   Ref(<<sPromise>>),
   Generic(<<sPromise>>, <<>>),
   Generic(<<sPromise>>, <<VoidType>>),
   Generic(<<sPromise>>, <<Ref(<<Net, Req>>)>>),
   Generic(<<sPromise>>, <<Ref(<<Req>>)>>),
   Generic(<<sPromise>>, <<Ref(<<Crdp, Net, Req>>)>>),
   Generic(<<sPromise>>, <<StringType>>),
   Generic(<<sPromise>>, <<VoidType, VoidType>>),
   Generic(<<sPromise>>, <<Ref(<<Net, Req>>), VoidType>>),
   Generic(<<Net, sPromise>>, <<VoidType>>),
   Generic(<<Req>>, <<VoidType>>),
   Ref(<<Net, Req>>)}

Command(nm, params, ret) ==
  PropertySignature(TRUE, nm, FALSE, FunctionType(params, ret))

\* well-formed members of a `Commands` interface
GoodCommandMembers ==
  {Command(cmdA, <<Parameter(Ref(<<Net, Opt>>))>>,
           Generic(<<sPromise>>, <<Ref(<<Net, Req>>)>>)),
   Command(cmdB, <<Parameter(Ref(<<Net, Req>>))>>,
           Generic(<<sPromise>>, <<VoidType>>)),
   IndexSignature}

CommandMemberShapes ==
  GoodCommandMembers
  \cup {Command(cmdA, ps, rt) :
          ps \in ParamLists(ParamTypes),
          rt \in {Generic(<<sPromise>>, <<VoidType>>),
                  Generic(<<sPromise>>, <<Ref(<<Net, Req>>)>>)}}
  \cup {Command(cmdA, ps, rt) :
          ps \in {<<>>, <<Parameter(Ref(<<Net, Opt>>))>>,
                  <<Parameter(Ref(<<Net, Req>>)), Parameter(StringType)>>},
          rt \in ReturnTypes}
  \cup {PropertySignature(TRUE, cmdA, FALSE, t) :
          t \in {Undefined, StringType, Ref(<<Net, Req>>)}}
  \cup {PropertySignature(FALSE, cmdA, FALSE, t) :
          t \in {FunctionType(<<>>, Generic(<<sPromise>>, <<VoidType>>)),
                 FunctionType(<<Parameter(StringType), Parameter(StringType)>>,
                              Generic(<<sPromise>>, <<VoidType>>))}}
  \cup {MethodSignature(TRUE, cmdA, FALSE, <<>>)}

CommandMemberLists ==
  {pre \o <<m>> : pre \in SeqsUpTo(GoodCommandMembers, MaxMembers - 1),
                  m \in CommandMemberShapes}
  \cup {<<>>}

\* members of a parameter interface
TypeMembers ==
  {PropertySignature(TRUE, <<"p">>, TRUE, StringType),
   PropertySignature(TRUE, <<"q">>, FALSE, StringType),
   MethodSignature(TRUE, <<"m">>, FALSE, <<>>),
   MethodSignature(TRUE, <<"m">>, TRUE, <<>>),
   IndexSignature}

DomainProperty(d) == PropertySignature(TRUE, d, FALSE, Ref(<<d \o sClient>>))
CrdpClientOf(names) ==
  InterfaceDeclaration(sCrdpClient, [x \in 1..Len(names) |-> DomainProperty(names[x])])

DefaultClient(d) ==
  InterfaceDeclaration(d \o sClient, <<Listener(onA, <<Parameter(Ref(<<d, Req>>))>>)>>)
DefaultCommands(d) ==
  InterfaceDeclaration(d \o sCommands,
    <<Command(cmdA, <<Parameter(Ref(<<d, Opt>>))>>,
              Generic(<<sPromise>>, <<VoidType>>))>>)
DefaultModule(d) ==
  ModuleDeclaration(d,
    <<InterfaceDeclaration(Req, <<PropertySignature(TRUE, <<"q">>, FALSE, StringType)>>),
      InterfaceDeclaration(Opt, <<PropertySignature(TRUE, <<"p">>, TRUE, StringType)>>)>>)

\* one domain, its `Client` interface varied
EventTrees ==
  {SourceFile(<<CrdpClientOf(<<Net>>), DefaultModule(Net),
                InterfaceDeclaration(Net \o sClient, ms), DefaultCommands(Net)>>) :
     ms \in EventMemberLists}

\* one domain, its `Commands` interface varied
CommandTrees ==
  {SourceFile(<<CrdpClientOf(<<Net>>), DefaultModule(Net), DefaultClient(Net),
                InterfaceDeclaration(Net \o sCommands, ms)>>) :
     ms \in CommandMemberLists}

\* one command with a parameter Net.Par, the declaration of Net.Par varied
ParCommands(typeName) ==
  InterfaceDeclaration(Net \o sCommands,
    <<Command(cmdA, <<Parameter(Ref(<<Net, typeName>>))>>,
              Generic(<<sPromise>>, <<VoidType>>))>>)

WeakTrees ==
  {SourceFile(<<CrdpClientOf(<<Net>>),
                ModuleDeclaration(Net, <<InterfaceDeclaration(Par, ms)>>),
                DefaultClient(Net), ParCommands(Par)>>) :
     ms \in SeqsUpTo(TypeMembers, MaxMembers)}
  \cup
  {SourceFile(<<CrdpClientOf(<<Net>>)>> \o decls \o <<DefaultClient(Net), ParCommands(Par)>>) :
     decls \in
       {<<>>,
        <<InterfaceDeclaration(Net, <<>>)>>,
        <<InterfaceDeclaration(Net, <<>>), ModuleDeclaration(Net, <<InterfaceDeclaration(Par, <<>>)>>)>>,
        <<ModuleDeclaration(Net, <<>>)>>,
        <<ModuleDeclaration(Net, <<ModuleDeclaration(Par, <<>>)>>)>>,
        <<ModuleDeclaration(Net, <<ModuleDeclaration(Par, <<>>), InterfaceDeclaration(Par, <<>>)>>)>>,
        <<ModuleDeclaration(Net, <<ModuleDeclaration(Opt, <<InterfaceDeclaration(Par, <<>>)>>)>>)>>,
        <<ModuleDeclaration(Crdp, <<ModuleDeclaration(Net, <<InterfaceDeclaration(Par, <<>>)>>)>>)>>}}
  \cup
  {SourceFile(<<CrdpClientOf(<<Net>>),
                ModuleDeclaration(Net, <<InterfaceDeclaration(Net, <<>>)>>),
                DefaultClient(Net), ParCommands(Net)>>)}
  \cup
  \* the parameter interface has a name with leading underscores
  {SourceFile(<<CrdpClientOf(<<Net>>), ModuleDeclaration(Net, decls),
                DefaultClient(Net), ParCommands(typeName)>>) :
     typeName \in {Und2, Und3},
     decls \in
       {<<InterfaceDeclaration(Und2, <<PropertySignature(TRUE, <<"p">>, TRUE, StringType)>>)>>,
        <<InterfaceDeclaration(Und2, <<PropertySignature(TRUE, <<"q">>, FALSE, StringType)>>)>>,
        <<InterfaceDeclaration(Und3, <<>>)>>,
        <<ModuleDeclaration(Und2, <<>>)>>,
        <<InterfaceDeclaration(Und2, <<PropertySignature(TRUE, <<"p">>, TRUE, StringType)>>),
          InterfaceDeclaration(Und3, <<PropertySignature(TRUE, <<"q">>, FALSE, StringType)>>)>>,
        <<InterfaceDeclaration(Und3, <<PropertySignature(TRUE, <<"q">>, FALSE, StringType)>>),
          InterfaceDeclaration(Und2, <<PropertySignature(TRUE, <<"p">>, TRUE, StringType)>>)>>}}

\* the members `interface CrdpClient` is tried with
ClientProperties ==
  {DomainProperty(Net), DomainProperty(Page),
   PropertySignature(FALSE, Net, FALSE, StringType),
   MethodSignature(TRUE, Net, FALSE, <<>>)}

\* the declarations of one domain: its module, `Client` and `Commands`
DomainDecls(d) ==
  {<<DefaultModule(d)>> \o c \o m :
     c \in {<<DefaultClient(d)>>,
            <<>>,
            <<InterfaceDeclaration(d \o sClient,
                <<MethodSignature(TRUE, onA, FALSE,
                                  <<Parameter(StringType), Parameter(StringType)>>)>>)>>},
     m \in {<<DefaultCommands(d)>>,
            <<ModuleDeclaration(d \o sCommands, <<>>)>>,
            <<InterfaceDeclaration(d \o sCommands,
                <<Command(cmdA, <<>>, VoidType)>>)>>}}

\* the declarations of a second domain
SecondDomainDecls(d) ==
  {<<DefaultModule(d), DefaultClient(d), DefaultCommands(d)>>,
   <<DefaultModule(d), DefaultCommands(d)>>,
   <<DefaultModule(d), DefaultClient(d), ModuleDeclaration(d \o sCommands, <<>>)>>}

\* the root declaration and up to MaxDomains domain properties varied
DriverTrees ==
  {SourceFile(<<InterfaceDeclaration(sCrdpClient, props)>> \o n \o p) :
     props \in SeqsUpTo(ClientProperties, MaxDomains),
     n \in DomainDecls(Net), p \in SecondDomainDecls(Page)}
  \cup
  {SourceFile(root \o <<DefaultModule(Net), DefaultClient(Net), DefaultCommands(Net)>>) :
     root \in {<<>>,
               <<ModuleDeclaration(sCrdpClient, <<>>)>>,
               <<ModuleDeclaration(sCrdpClient, <<CrdpClientOf(<<Net>>)>>)>>,
               <<ModuleDeclaration(sCrdpClient, <<>>), CrdpClientOf(<<Net>>)>>}}
  \cup
  {SourceFile(<<ModuleDeclaration(Crdp,
       <<CrdpClientOf(<<Net, Page>>), DefaultModule(Net),
         InterfaceDeclaration(Net \o sClient, evs),
         InterfaceDeclaration(Net \o sCommands, cms),
         DefaultModule(Page), DefaultClient(Page), DefaultCommands(Page)>>)>>) :
     evs \in {<<Listener(onA, <<>>), Listener(onBc, <<>>),
               Listener(onA, <<Parameter(Ref(<<Net, Req>>))>>)>>},
     cms \in {<<Command(cmdA, <<>>, Generic(<<sPromise>>, <<VoidType>>)),
               Command(cmdB, <<>>, Generic(<<sPromise>>, <<VoidType>>)),
               Command(cmdA, <<Parameter(Ref(<<Net, Opt>>))>>,
                       Generic(<<sPromise>>, <<Ref(<<Net, Req>>)>>))>>}}

\* the declarations of domain d, its interfaces written with the name w
UnderscoreDecls(d, w) ==
  <<DefaultModule(d),
    InterfaceDeclaration(w \o sClient, <<Listener(onA, <<Parameter(Ref(<<d, Req>>))>>)>>),
    InterfaceDeclaration(w \o sCommands,
      <<Command(cmdA, <<Parameter(Ref(<<d, Opt>>))>>,
                Generic(<<sPromise>>, <<VoidType>>))>>)>>

\* a domain whose name has leading underscores
UnderscoreTrees ==
  {SourceFile(<<CrdpClientOf(<<d>>)>> \o UnderscoreDecls(d, w)) :
     d \in {Und2, Und3}, w \in {Und2, Und3}}
  \cup
  {SourceFile(<<InterfaceDeclaration(Und2 \o sClient, <<>>),
                ModuleDeclaration(Und3 \o sClient, <<>>),
                CrdpClientOf(<<Net>>), DefaultModule(Net), DefaultClient(Net),
                DefaultCommands(Net)>>),
   SourceFile(<<CrdpClientOf(<<Und3>>), DefaultModule(Und3),
                InterfaceDeclaration(Und2 \o sClient, <<Listener(onA, <<>>)>>),
                InterfaceDeclaration(Und3 \o sClient, <<Listener(onBc, <<>>)>>),
                InterfaceDeclaration(Und2 \o sCommands, <<>>)>>),
   \* two interfaces for each lookup of domain ___a: the one whose name
   \* reads __a<suffix> comes first and declares the members in the opposite
   \* order
   SourceFile(<<CrdpClientOf(<<Und3>>), DefaultModule(Und3),
                InterfaceDeclaration(Und2 \o sClient,
                  <<Listener(onA, <<>>),
                    Listener(onBc, <<Parameter(Ref(<<Und3, Req>>))>>)>>),
                InterfaceDeclaration(Und3 \o sClient,
                  <<Listener(onBc, <<Parameter(Ref(<<Und3, Req>>))>>),
                    Listener(onA, <<>>)>>),
                InterfaceDeclaration(Und2 \o sCommands,
                  <<Command(cmdA, <<>>, Generic(<<sPromise>>, <<VoidType>>)),
                    Command(cmdB, <<Parameter(Ref(<<Und3, Opt>>))>>,
                            Generic(<<sPromise>>, <<VoidType>>))>>),
                InterfaceDeclaration(Und3 \o sCommands,
                  <<Command(cmdB, <<Parameter(Ref(<<Und3, Opt>>))>>,
                            Generic(<<sPromise>>, <<VoidType>>)),
                    Command(cmdA, <<>>, Generic(<<sPromise>>, <<VoidType>>))>>)>>)}

Trees ==
  EventTrees \cup CommandTrees \cup WeakTrees \cup DriverTrees \cup UnderscoreTrees

Init ==
  /\ tree \in Trees
  /\ other = tree
  /\ pc = "getCrdpDomainNames"
  /\ crdpDomainNames = <<>>
  /\ i = 0
  /\ j = 0
  /\ curMap = <<>>
  /\ outputStr = <<>>
  /\ crdpStr = <<>>
  /\ thrown = NoError
  /\ file = OldFile
  /\ writes = 0
  /\ logged = FALSE
  /\ steps = <<>>

Spec == Init /\ [][Next]_vars

(***************************************************************************)
(* Vocabulary of the properties                                            *)
(***************************************************************************)
Failed == thrown # NoError

IsPrefix(s, t) == Len(s) <= Len(t) /\ SubSeq(t, 1, Len(s)) = s

RECURSIVE Flatten(_)
Flatten(ss) == IF ss = <<>> THEN <<>> ELSE Head(ss) \o Flatten(Tail(ss))

\* the steps of a complete run over the domains `names`, in the fixed order
ExtractionSteps(names) ==
  <<Step("getCrdpDomainNames", <<>>)>>
  \o Flatten([x \in 1..Len(names) |->
                <<Step("getEventMap", names[x]), Step("return getEventMap", names[x])>>])
  \o Flatten([x \in 1..Len(names) |->
                <<Step("getCommandMap", names[x]), Step("return getCommandMap", names[x])>>])

\* the steps of a complete run over the domains `names`, in the fixed order
ExpectedSteps(names) ==
  ExtractionSteps(names) \o <<Step("consoleLog", <<>>), Step("writeFileSync", <<>>)>>

\* the first error in the order: enumeration, events of every domain,
\* commands of every domain; NoError if none of them fails
RECURSIVE FirstError(_)
FirstError(results) ==
  IF results = <<>> THEN NoError
  ELSE IF ~Head(results).ok THEN Head(results).err
  ELSE FirstError(Tail(results))

FirstFailure(t) ==
  LET d == getCrdpDomainNames(t)
  IN IF ~d.ok THEN d.err
     ELSE FirstError([x \in 1..Len(d.val) |-> getEventMap(t, d.val[x])]
                     \o [x \in 1..Len(d.val) |-> getCommandMap(t, d.val[x])])

IsEventPiece(x) == x.piece = "event"
IsCommandPiece(x) == x.piece = "command"
KeysOf(pieces) == [x \in 1..Len(pieces) |-> pieces[x].key]
NoRepeat(s) == \A x, y \in 1..Len(s) : s[x] = s[y] => x = y

\* a complete output text: the fixed pieces around the two blocks
CompleteText(text) ==
  \E ne \in 0..Len(text) :
    LET ev == SubSeq(text, 3, 2 + ne)
        cm == SubSeq(text, 6 + ne, Len(text) - 2)
    IN /\ Len(text) >= ne + 7
       /\ SubSeq(text, 1, 2) = <<HeaderPiece, EventsOpen>>
       /\ \A x \in 1..Len(ev) : IsEventPiece(ev[x])
       /\ SubSeq(text, 3 + ne, 5 + ne) = <<BlockClose, NewlinePiece, CommandsOpen>>
       /\ \A x \in 1..Len(cm) : IsCommandPiece(cm[x])
       /\ SubSeq(text, Len(text) - 1, Len(text)) = <<BlockClose, FooterPiece>>

(***************************************************************************)
(* C1: the output file is written at most once per run, and only after     *)
(* domain enumeration and the event and command extraction of every        *)
(* enumerated domain have completed without error; if one of these steps   *)
(* fails, the run ends with the file neither written nor modified and no   *)
(* partial text persisted.  (A write that the file system cuts short is    *)
(* not one of these steps: it happens after all of them have succeeded.)   *)
(***************************************************************************)
C1_WriteOnceAfterAll ==
  /\ writes <= 1
  /\ (writes > 0 \/ file # OldFile) =>
       /\ getCrdpDomainNames(tree).ok
       /\ crdpDomainNames = getCrdpDomainNames(tree).val
       /\ FirstFailure(tree) = NoError
       /\ IsPrefix(ExtractionSteps(crdpDomainNames), steps)
       /\ CompleteText(crdpStr)
  /\ (Failed /\ thrown # WriteError) => file = OldFile /\ writes = 0
  /\ pc = "done" => writes = 1 /\ file = crdpStr /\ CompleteText(file)

C1_Witness ==
  /\ pc = "done" /\ writes = 1 /\ Len(crdpDomainNames) = 2
  /\ Len(SelectSeq(file, IsEventPiece)) >= 2
  /\ Len(SelectSeq(file, IsCommandPiece)) >= 2

(***************************************************************************)
(* C10: the steps run in one fixed order: enumeration, then event          *)
(* extraction once per enumerated domain in enumeration order, then        *)
(* command extraction once per enumerated domain in enumeration order.     *)
(* The run stops at the first step that fails: the error that ends it is   *)
(* the first failure in that order, and no step follows it.                *)
(***************************************************************************)
C10_FixedOrderFirstFailure ==
  /\ IsPrefix(steps, ExpectedSteps(crdpDomainNames))
  /\ (thrown = WriteError) =
       (Failed /\ steps = ExpectedSteps(crdpDomainNames) /\ FirstFailure(tree) = NoError)
  /\ (Failed /\ thrown # WriteError) =>
       /\ thrown = FirstFailure(tree)
       /\ Len(steps) >= 1
       /\ steps[Len(steps)].call \in {"getCrdpDomainNames", "getEventMap", "getCommandMap"}
       /\ steps[Len(steps)].call = "getEventMap" =>
            ~getEventMap(tree, steps[Len(steps)].domain).ok
       /\ steps[Len(steps)].call = "getCommandMap" =>
            ~getCommandMap(tree, steps[Len(steps)].domain).ok
  /\ pc = "done" => steps = ExpectedSteps(crdpDomainNames) /\ FirstFailure(tree) = NoError

\* the events of the second domain fail although the commands of the first
\* domain would fail too
C10_Witness ==
  /\ Failed
  /\ Len(crdpDomainNames) = 2
  /\ crdpDomainNames[1] # crdpDomainNames[2]
  /\ steps[Len(steps)] = Step("getEventMap", crdpDomainNames[2])
  /\ ~getCommandMap(tree, crdpDomainNames[1]).ok
  /\ thrown = getEventMap(tree, crdpDomainNames[2]).err

(***************************************************************************)
(* What the schema declares, read off the tree                             *)
(***************************************************************************)
RECURSIVE DedupFirst(_)
\* the distinct elements of s, each at the place of its first occurrence
DedupFirst(s) ==
  IF s = <<>> THEN <<>>
  ELSE LET r == DedupFirst(SubSeq(s, 1, Len(s) - 1))
           l == s[Len(s)]
       IN IF \E x \in 1..Len(r) : r[x] = l THEN r ELSE Append(r, l)

IsMethod(m) == m.kind = "MethodSignature"
IsProperty(m) == m.kind = "PropertySignature"
IsNamedProperty(m) == m.kind = "PropertySignature" /\ m.nameIsIdentifier

\* a listener method: a method signature named `on` + upper-case letter
IsListenerMethod(m) ==
  m.kind = "MethodSignature" /\ m.nameIsIdentifier /\ MatchesOnUpper(m.name)

\* a command property: a property signature whose type is a function type
IsCommandProperty(m) ==
  m.kind = "PropertySignature" /\ m.nameIsIdentifier /\ m.type.kind = "FunctionType"

\* 'D.' + third character lower-cased + the rest from the fourth character
ListenerKey(d, methodName) ==
  d \o <<".">> \o <<toLowerCase(methodName[3])>> \o SubSeq(methodName, 4, Len(methodName))
CommandKey(d, propertyName) == d \o <<".">> \o propertyName

RECURSIVE FirstNamed(_, _)
RECURSIVE FirstNamedIn(_, _, _)
\* the first interface or module, in depth-first order, whose name reads nm
FirstNamed(node, nm) ==
  IF node.kind \in {"InterfaceDeclaration", "ModuleDeclaration"} /\ node.name = nm
  THEN node
  ELSE FirstNamedIn(node.body, 1, nm)

FirstNamedIn(children, k, nm) ==
  IF k > Len(children) THEN Undefined
  ELSE LET r == FirstNamed(children[k], nm)
       IN IF r.kind # "undefined" THEN r ELSE FirstNamedIn(children, k + 1, nm)

\* the members of the interface named nm; none if the schema has no such
\* interface
MembersOfInterfaceNamed(t, nm) ==
  LET d == FirstNamed(t, nm)
  IN IF d.kind = "InterfaceDeclaration" THEN d.members ELSE <<>>

\* the members of the interface the run reads when it looks up nm
MembersOfInterfaceRead(t, nm) ==
  LET d == findFirstInterfaceOrModule(t, nm)
  IN IF d.kind = "InterfaceDeclaration" THEN d.members ELSE <<>>

\* the property names of the CrdpClient declaration, in declaration order
DeclaredDomains(t) ==
  LET ms == SelectSeq(MembersOfInterfaceNamed(t, sCrdpClient), IsNamedProperty)
  IN [x \in 1..Len(ms) |-> ms[x].name]

\* the keys of the listener methods among the members ms, in declaration order
EventKeysOf(ms, d) ==
  LET ls == SelectSeq(ms, IsMethod)
  IN [x \in 1..Len(ls) |-> ListenerKey(d, ls[x].name)]

\* the keys of the command properties among the members ms, in declaration order
CommandKeysOf(ms, d) ==
  LET ps == SelectSeq(ms, IsProperty)
  IN [x \in 1..Len(ps) |-> CommandKey(d, ps[x].name)]

\* the keys of the listener methods of the interface named `<d>Client`
DeclaredEventKeys(t, d) == EventKeysOf(MembersOfInterfaceNamed(t, d \o sClient), d)

\* the keys of the command properties of the interface named `<d>Commands`
DeclaredCommandKeys(t, d) == CommandKeysOf(MembersOfInterfaceNamed(t, d \o sCommands), d)

RenderedEventKeys(text) == KeysOf(SelectSeq(text, IsEventPiece))
RenderedCommandKeys(text) == KeysOf(SelectSeq(text, IsCommandPiece))

(***************************************************************************)
(* C7: in the rendered events block and in the rendered commands block the *)
(* entries are grouped by domain in the order the domains were enumerated  *)
(* from the properties of CrdpClient, and within a domain in the           *)
(* declaration order of its listener methods (command properties); the     *)
(* events block is rendered before the commands block.                     *)
(***************************************************************************)
C7_RenderedOrder ==
  pc = "done" =>
    /\ crdpDomainNames = DeclaredDomains(tree)
    /\ CompleteText(file)
    /\ RenderedEventKeys(file) =
         Flatten([x \in 1..Len(crdpDomainNames) |->
                    DedupFirst(DeclaredEventKeys(tree, crdpDomainNames[x]))])
    /\ RenderedCommandKeys(file) =
         Flatten([x \in 1..Len(crdpDomainNames) |->
                    DedupFirst(DeclaredCommandKeys(tree, crdpDomainNames[x]))])

\* the same order, stated of the interfaces the run reads for a domain
\* instead of the interfaces named after it
RenderedOrderOfInterfacesRead ==
  pc = "done" =>
    /\ crdpDomainNames = DeclaredDomains(tree)
    /\ CompleteText(file)
    /\ RenderedEventKeys(file) =
         Flatten([x \in 1..Len(crdpDomainNames) |->
                    DedupFirst(EventKeysOf(
                      MembersOfInterfaceRead(tree, crdpDomainNames[x] \o sClient),
                      crdpDomainNames[x]))])
    /\ RenderedCommandKeys(file) =
         Flatten([x \in 1..Len(crdpDomainNames) |->
                    DedupFirst(CommandKeysOf(
                      MembersOfInterfaceRead(tree, crdpDomainNames[x] \o sCommands),
                      crdpDomainNames[x]))])

\* every successful run of the model has domains and interfaces whose names
\* do not start with two underscores, or is one of the runs above
OrderedWhereNamesAreRead ==
  (pc = "done" /\ \A x \in 1..Len(crdpDomainNames) :
                    /\ MembersOfInterfaceRead(tree, crdpDomainNames[x] \o sClient)
                         = MembersOfInterfaceNamed(tree, crdpDomainNames[x] \o sClient)
                    /\ MembersOfInterfaceRead(tree, crdpDomainNames[x] \o sCommands)
                         = MembersOfInterfaceNamed(tree, crdpDomainNames[x] \o sCommands))
    => C7_RenderedOrder

(***************************************************************************)
(* C9: on every successful run no fully-qualified key is rendered more     *)
(* than once in the events block, and none more than once in the commands  *)
(* block, whether the key is derived twice from duplicate member names or  *)
(* from a domain name enumerated twice.                                    *)
(***************************************************************************)
C9_NoKeyRenderedTwice ==
  pc = "done" =>
    /\ NoRepeat(RenderedEventKeys(file))
    /\ NoRepeat(RenderedCommandKeys(file))
    \* the single entry of a key carries the value of its last declaration
    /\ \A x \in 1..Len(crdpDomainNames) :
         LET d == crdpDomainNames[x]
             es == findFirstInterfaceOrModule(tree, d \o sClient).members
             cs == findFirstInterfaceOrModule(tree, d \o sCommands).members
         IN /\ \A k \in 1..Len(es) :
                 (IsMethod(es[k]) /\ \A l \in (k + 1)..Len(es) :
                                      ~(IsMethod(es[l]) /\ es[l].name = es[k].name)) =>
                   \E y \in 1..Len(file) :
                     /\ IsEventPiece(file[y])
                     /\ file[y].key = ListenerKey(d, es[k].name)
                     /\ file[y].eventType = eventMember(es[k], d, <<>>).val[1].val
            /\ \A k \in 1..Len(cs) :
                 (IsProperty(cs[k]) /\ \A l \in (k + 1)..Len(cs) :
                                      ~(IsProperty(cs[l]) /\ cs[l].name = cs[k].name)) =>
                   \E y \in 1..Len(file) :
                     /\ IsCommandPiece(file[y])
                     /\ file[y].key = CommandKey(d, cs[k].name)
                     /\ file[y].paramsType =
                          commandMember(tree, cs[k], d, <<>>).val[1].val.paramsType
                     /\ file[y].returnType =
                          commandMember(tree, cs[k], d, <<>>).val[1].val.returnType

(***************************************************************************)
(* C3: a listener method, the callback type of a listener, or the function *)
(* type of a command property that declares two or more parameters always  *)
(* raises the error 'found N parameters passed to <name>' with N the exact *)
(* number of parameters, and yields no map entry.                          *)
(***************************************************************************)
\* the parameter count the error is about: the listener's own when it has
\* two or more, else its callback's when that has two or more, else 0
ListenerExcess(m) ==
  IF Len(m.parameters) >= 2 THEN Len(m.parameters)
  ELSE IF /\ Len(m.parameters) = 1
          /\ m.parameters[1].type.kind = "FunctionType"
          /\ Len(m.parameters[1].type.parameters) >= 2
  THEN Len(m.parameters[1].type.parameters)
  ELSE 0

CommandExcess(m) ==
  IF Len(m.type.parameters) >= 2 THEN Len(m.type.parameters) ELSE 0

\* a property signature whose type is a function type, whatever its name
IsFunctionProperty(m) == m.kind = "PropertySignature" /\ m.type.kind = "FunctionType"

\* C3, as stated: every method signature of a `Client` interface, its
\* callback, and every function type of a property of a `Commands` interface
\* that declares two or more parameters raises 'found N parameters passed to
\* ...' with N the number found, and leaves no map entry
C3_AnyDeclarationTwoOrMore ==
  /\ pc = "getEventMap" =>
       LET ms == CurrentEventMembers
           d == crdpDomainNames[i]
       IN /\ \A k \in 1..(j - 1) :
               ~(IsMethod(ms[k]) /\ ListenerExcess(ms[k]) >= 2)
          /\ (Failed /\ IsMethod(ms[j]) /\ ListenerExcess(ms[j]) >= 2) =>
               /\ thrown = Err("found N parameters passed to", ListenerExcess(ms[j]),
                               ms[j].name, <<>>)
               /\ (Len(ms[j].name) >= 3 /\ MapHas(curMap, ListenerKey(d, ms[j].name))) =>
                    \E k \in 1..(j - 1) : IsMethod(ms[k]) /\ ms[k].name = ms[j].name
               /\ file = OldFile
  /\ pc = "getCommandMap" =>
       LET ms == CurrentCommandMembers
           d == crdpDomainNames[i]
       IN /\ \A k \in 1..(j - 1) :
               ~(IsFunctionProperty(ms[k]) /\ CommandExcess(ms[k]) >= 2)
          /\ (Failed /\ IsFunctionProperty(ms[j]) /\ CommandExcess(ms[j]) >= 2) =>
               /\ thrown = Err("found N parameters passed to", CommandExcess(ms[j]),
                               CommandKey(d, ms[j].name), <<>>)
               /\ MapHas(curMap, CommandKey(d, ms[j].name)) =>
                    \E k \in 1..(j - 1) : IsProperty(ms[k]) /\ ms[k].name = ms[j].name
               /\ file = OldFile

\* C3, amended: the name checks of lines 175-181 and 284-286 come before the
\* parameter counts, so the count error is raised for the declarations that
\* pass them: a method signature with an identifier name matching `on` + an
\* upper-case letter, its callback, and the function type of a property
\* signature with an identifier name.  Such a declaration with two or more
\* parameters raises 'found N parameters passed to ...' with N the number
\* found, and leaves no map entry
C3_TwoOrMoreParameters ==
  /\ pc = "getEventMap" =>
       LET ms == CurrentEventMembers
           d == crdpDomainNames[i]
       IN /\ \A k \in 1..(j - 1) :
               ~(IsListenerMethod(ms[k]) /\ ListenerExcess(ms[k]) >= 2)
          /\ (Failed /\ IsListenerMethod(ms[j]) /\ ListenerExcess(ms[j]) >= 2) =>
               /\ thrown = Err("found N parameters passed to", ListenerExcess(ms[j]),
                               ms[j].name, <<>>)
               /\ MapHas(curMap, ListenerKey(d, ms[j].name)) =>
                    \E k \in 1..(j - 1) : IsMethod(ms[k]) /\ ms[k].name = ms[j].name
               /\ file = OldFile
  /\ pc = "getCommandMap" =>
       LET ms == CurrentCommandMembers
           d == crdpDomainNames[i]
       IN /\ \A k \in 1..(j - 1) :
               ~(IsCommandProperty(ms[k]) /\ CommandExcess(ms[k]) >= 2)
          /\ (Failed /\ IsCommandProperty(ms[j]) /\ CommandExcess(ms[j]) >= 2) =>
               /\ thrown = Err("found N parameters passed to", CommandExcess(ms[j]),
                               CommandKey(d, ms[j].name), <<>>)
               /\ MapHas(curMap, CommandKey(d, ms[j].name)) =>
                    \E k \in 1..(j - 1) : IsProperty(ms[k]) /\ ms[k].name = ms[j].name
               /\ file = OldFile

\* a listener whose callback takes three parameters has just been processed
C3_Witness ==
  /\ pc = "getEventMap" /\ Failed /\ j >= 2
  /\ IsListenerMethod(CurrentEventMembers[j])
  /\ Len(CurrentEventMembers[j].parameters) = 1
  /\ ListenerExcess(CurrentEventMembers[j]) = 3
  /\ thrown.n = 3

(***************************************************************************)
(* The error classes of the design: the messages of an unsupported shape   *)
(***************************************************************************)
TypeNameMsgs == {"unsupported triple nested type name in", "unexpected type node in"}

UnsupportedShapeMsgs ==
  TypeNameMsgs \cup
  {"unexpected param passed to", "found N parameters passed to",
   "found unexpected argument passed to", "bad method name found: ",
   "command has unexpected return type", "unexpected param(s) passed to",
   "unexpected return type for", "Command did not have an assigned function"}

(***************************************************************************)
(* C4: getEventListenerParamType accepts exactly one listener shape: a     *)
(* method with a single parameter whose type is a function type taking no  *)
(* parameter or one type-reference parameter.  Every other listener shape, *)
(* a listener without parameters included, fails with an unsupported-shape *)
(* error that names the method.                                            *)
(***************************************************************************)
ListenerAccepted(m) ==
  /\ Len(m.parameters) = 1
  /\ m.parameters[1].type.kind = "FunctionType"
  /\ LET cb == m.parameters[1].type
     IN \/ Len(cb.parameters) = 0
        \/ Len(cb.parameters) = 1 /\ cb.parameters[1].type.kind = "TypeReference"

\* C4: a listener that is not one parameter of a function type taking zero
\* parameters or one type reference fails with an UnsupportedShape error
\* naming the method; the accepted shapes do not fail
C4_ListenerShapes ==
  pc = "getEventMap" =>
    LET ms == CurrentEventMembers
    IN /\ \A k \in 1..(j - 1) : IsListenerMethod(ms[k]) => ListenerAccepted(ms[k])
       /\ (Failed /\ IsListenerMethod(ms[j])) =>
            IF ListenerAccepted(ms[j])
            \* the listener was accepted: the error is getTypeName's
            THEN thrown.type = "Error" /\ thrown.msg \in TypeNameMsgs
            ELSE /\ thrown.type = "Error"
                 /\ thrown.msg \in UnsupportedShapeMsgs
                 /\ thrown.name = ms[j].name

(***************************************************************************)
(* C5: for a domain D whose event extraction succeeds, every method of     *)
(* `DClient` named `on` + upper-case letter has exactly one entry in D's   *)
(* event map, keyed 'D.' + third character lower-cased + the rest; the     *)
(* first character of the event name is lower-case; the entry's value is   *)
(* 'void' when the callback takes no argument and 'Crdp.<domain>.<type>'   *)
(* otherwise.                                                              *)
(***************************************************************************)
IsLowerAZ(c) == \E k \in 1..Len(LOWER) : LOWER[k] = c

\* the value a listener method declares: 'void' or 'Crdp.<domain>.<type>'
ListenerValue(m) ==
  LET cb == m.parameters[1].type
  IN IF Len(cb.parameters) = 0 THEN <<"v","o","i","d">>
     ELSE <<"C","r","d","p",".">> \o cb.parameters[1].type.typeName[1]
          \o <<".">> \o cb.parameters[1].type.typeName[2]

EntriesWithKey(m, k) == {x \in 1..Len(m) : m[x].key = k}

\* the last member of ms with the name of ms[k]
LastNamed(ms, k) ==
  CHOOSE l \in k..Len(ms) :
    /\ ms[l].kind = ms[k].kind /\ ms[l].name = ms[k].name
    /\ \A l2 \in (l + 1)..Len(ms) :
         ~(ms[l2].kind = ms[k].kind /\ ms[l2].name = ms[k].name)

EventLoopComplete == pc = "getEventMap" /\ ~Failed /\ j > Len(CurrentEventMembers)

\* C5 as written: every on+Capital method has exactly one entry under its
\* derived key, whose value is the one the method itself declares
C5_EveryListenerItsOwnValue ==
  EventLoopComplete =>
    LET ms == CurrentEventMembers
        d == crdpDomainNames[i]
    IN \A k \in 1..Len(ms) :
         IsListenerMethod(ms[k]) =>
           LET key == ListenerKey(d, ms[k].name)
           IN /\ Cardinality(EntriesWithKey(curMap, key)) = 1
              /\ IsLowerAZ(key[Len(d) + 2])
              /\ \A x \in EntriesWithKey(curMap, key) : curMap[x].val = ListenerValue(ms[k])

\* C5, amended: the methods are those of the interface getEventMap reads for
\* the domain, which is the first declaration, depth first, that line 49 or
\* line 54 compares equal to `<domain>Client` (a module by its text, an
\* interface by its escaped text: its text with one more leading underscore
\* when it starts with two).  Every on+Capital method of that interface has
\* exactly one entry under its derived key, whose value is the one declared
\* by the last method of that name in that interface
C5_EveryListenerOneEntry ==
  EventLoopComplete =>
    LET ms == CurrentEventMembers
        d == crdpDomainNames[i]
    IN \A k \in 1..Len(ms) :
         IsListenerMethod(ms[k]) =>
           LET key == ListenerKey(d, ms[k].name)
           IN /\ Cardinality(EntriesWithKey(curMap, key)) = 1
              /\ IsLowerAZ(key[Len(d) + 2])
              /\ \A x \in EntriesWithKey(curMap, key) :
                   curMap[x].val = ListenerValue(ms[LastNamed(ms, k)])

\* three listeners, two names, a 'void' entry and a reference entry
C5_Witness ==
  /\ EventLoopComplete
  /\ Len(CurrentEventMembers) = 3
  /\ \A k \in 1..3 : IsListenerMethod(CurrentEventMembers[k])
  /\ Len(curMap) = 2
  /\ curMap[1].val = sVoid
  /\ curMap[2].val # sVoid

(***************************************************************************)
(* C2: for every command property processed without error, paramsType is   *)
(* 'void | Crdp.<domain>.<type>' if and only if the command has a          *)
(* parameter whose type resolves to an interface <domain>.<type> whose     *)
(* members are all optional; otherwise it is 'void' (no parameter) or      *)
(* 'Crdp.<domain>.<type>'.                                                 *)
(***************************************************************************)
\* the interface a parameter type <domain>.<type> resolves to
ResolvedInterface(t, typeName) ==
  findFirstInterfaceOrModule(findFirstInterfaceOrModule(t, typeName[1]), typeName[2])

AllMembersOptional(itf) == \A k \in 1..Len(itf.members) : itf.members[k].questionToken

AllPropertiesOptional(itf) ==
  \A k \in 1..Len(itf.members) :
    itf.members[k].kind = "PropertySignature" => itf.members[k].questionToken

QualifiedText(typeName) ==
  <<"C","r","d","p",".">> \o typeName[1] \o <<".">> \o typeName[2]

\* the command property that the last iteration processed without error
CommandJustProcessed ==
  /\ pc = "getCommandMap" /\ ~Failed /\ j >= 2
  /\ IsProperty(CurrentCommandMembers[j - 1])

\* the entry the last iteration wrote
LastCommandEntry ==
  LET key == CommandKey(crdpDomainNames[i], CurrentCommandMembers[j - 1].name)
  IN curMap[CHOOSE x \in 1..Len(curMap) : curMap[x].key = key]

\* C2 as written: paramsType has the form 'void | Crdp.<domain>.<type>' iff
\* every member of the parameter's interface is optional
C2_VoidIffAllMembersOptional ==
  CommandJustProcessed =>
    LET fn == CurrentCommandMembers[j - 1].type
        paramsType == LastCommandEntry.val.paramsType
    IN IF Len(fn.parameters) = 0 THEN paramsType = <<"v","o","i","d">>
       ELSE LET tn == fn.parameters[1].type.typeName
            IN /\ Len(fn.parameters) = 1
               /\ ResolvedInterface(tree, tn).kind = "InterfaceDeclaration"
               /\ IF AllMembersOptional(ResolvedInterface(tree, tn))
                  THEN paramsType = <<"v","o","i","d"," ","|"," ">> \o QualifiedText(tn)
                  ELSE paramsType = QualifiedText(tn)

\* C2, amended: the parameter's interface is the one isWeakInterface finds:
\* the first declaration, depth first, compared equal to `<type>` inside the
\* first declaration compared equal to `<domain>` (a module by its text, an
\* interface by its escaped text: its text with one more leading underscore
\* when it starts with two).  paramsType has the form
\* 'void | Crdp.<domain>.<type>' iff that interface has every
\* property-signature member optional (its other members are ignored); else
\* it is 'void' or 'Crdp.<domain>.<type>'
C2_VoidIffAllPropertiesOptional ==
  CommandJustProcessed =>
    LET fn == CurrentCommandMembers[j - 1].type
        paramsType == LastCommandEntry.val.paramsType
    IN IF Len(fn.parameters) = 0 THEN paramsType = <<"v","o","i","d">>
       ELSE LET tn == fn.parameters[1].type.typeName
            IN /\ Len(fn.parameters) = 1
               /\ ResolvedInterface(tree, tn).kind = "InterfaceDeclaration"
               /\ IF AllPropertiesOptional(ResolvedInterface(tree, tn))
                  THEN paramsType = <<"v","o","i","d"," ","|"," ">> \o QualifiedText(tn)
                  ELSE paramsType = QualifiedText(tn)

\* a parameter interface with an optional property and a required method
C2_Witness ==
  /\ CommandJustProcessed
  /\ Len(CurrentCommandMembers[j - 1].type.parameters) = 1
  /\ LET itf == ResolvedInterface(tree, CurrentCommandMembers[j - 1].type.parameters[1].type.typeName)
     IN /\ \E k \in 1..Len(itf.members) :
             itf.members[k].kind = "PropertySignature" /\ itf.members[k].questionToken
        /\ \E k \in 1..Len(itf.members) :
             itf.members[k].kind = "MethodSignature" /\ ~itf.members[k].questionToken
  /\ SubSeq(LastCommandEntry.val.paramsType, 1, 7) = <<"v","o","i","d"," ","|"," ">>

(***************************************************************************)
(* C6: getPromisedReturnType succeeds only when the declared return type   *)
(* is a reference to the identifier Promise with exactly one type argument *)
(* that is the void keyword or a two-part qualified type reference;        *)
(* returnType is then 'void', respectively 'Crdp.<domain>.<type>'.  In     *)
(* every other case it fails with an unsupported-shape error that names    *)
(* the command.                                                            *)
(***************************************************************************)
ValidPromise(rt) ==
  /\ rt.kind = "TypeReference"
  /\ rt.typeName = << <<"P","r","o","m","i","s","e">> >>
  /\ rt.hasTypeArguments
  /\ Len(rt.typeArguments) = 1
  /\ \/ rt.typeArguments[1].kind = "VoidKeyword"
     \/ /\ rt.typeArguments[1].kind = "TypeReference"
        /\ Len(rt.typeArguments[1].typeName) = 2

\* C6: a command succeeds in getPromisedReturnType only with Promise<void>,
\* rendered 'void', or Promise<domain.type>, rendered 'Crdp.<domain>.<type>';
\* every other return type fails with an error naming the command
C6_PromisedReturnType ==
  pc = "getCommandMap" =>
    LET ms == CurrentCommandMembers
        d == crdpDomainNames[i]
    IN /\ \A k \in 1..(j - 1) : IsProperty(ms[k]) => ValidPromise(ms[k].type.type)
       /\ CommandJustProcessed =>
            LET arg == ms[j - 1].type.type.typeArguments[1]
            IN LastCommandEntry.val.returnType =
                 IF arg.kind = "VoidKeyword" THEN <<"v","o","i","d">>
                 ELSE QualifiedText(arg.typeName)
       \* the command reached getPromisedReturnType and the run failed there
       /\ ( /\ Failed /\ IsCommandProperty(ms[j])
            /\ paramsTypeOf(tree, ms[j].type, CommandKey(d, ms[j].name)).ok ) =>
            /\ ~ValidPromise(ms[j].type.type)
            /\ thrown.type = "Error"
            /\ thrown.msg \in UnsupportedShapeMsgs
            /\ thrown.name = CommandKey(d, ms[j].name)

\* a command returning Promise with two type arguments has just failed
C6_Witness ==
  /\ pc = "getCommandMap" /\ Failed
  /\ IsCommandProperty(CurrentCommandMembers[j])
  /\ CurrentCommandMembers[j].type.type.kind = "TypeReference"
  /\ Len(CurrentCommandMembers[j].type.type.typeArguments) = 2
  /\ thrown.msg = "unexpected param(s) passed to"
  /\ thrown.name = CommandKey(crdpDomainNames[i], CurrentCommandMembers[j].name)

(***************************************************************************)
(* The run as a function of the input: the text written, or the error      *)
(***************************************************************************)
RECURSIVE outputEventMap(_, _, _)
\* lines 331-344: the pieces appended for the domains from k on
outputEventMap(sourceRoot, domainNames, k) ==
  IF k > Len(domainNames) THEN Ok(<<>>)
  ELSE LET eventMap == getEventMap(sourceRoot, domainNames[k])
       IN IF ~eventMap.ok THEN Throw(eventMap.err)
          ELSE LET rest == outputEventMap(sourceRoot, domainNames, k + 1)
               IN IF ~rest.ok THEN rest
                  ELSE Ok(eventPieces(eventMap.val) \o rest.val)

RECURSIVE outputCommandMap(_, _, _)
\* lines 353-369: the pieces appended for the domains from k on
outputCommandMap(sourceRoot, domainNames, k) ==
  IF k > Len(domainNames) THEN Ok(<<>>)
  ELSE LET commandsMap == getCommandMap(sourceRoot, domainNames[k])
       IN IF ~commandsMap.ok THEN Throw(commandsMap.err)
          ELSE LET rest == outputCommandMap(sourceRoot, domainNames, k + 1)
               IN IF ~rest.ok THEN rest
                  ELSE Ok(commandPieces(commandsMap.val) \o rest.val)

\* lines 373-394: the text handed to fs.writeFileSync, or the uncaught error
RunOutcome(sourceRoot) ==
  LET names == getCrdpDomainNames(sourceRoot)
  IN IF ~names.ok THEN Throw(names.err)
     ELSE LET events == outputEventMap(sourceRoot, names.val, 1)
          IN IF ~events.ok THEN Throw(events.err)
             ELSE LET commands == outputCommandMap(sourceRoot, names.val, 1)
                  IN IF ~commands.ok THEN Throw(commands.err)
                     ELSE Ok(<<HeaderPiece, EventsOpen>> \o events.val
                             \o <<BlockClose, NewlinePiece, CommandsOpen>>
                             \o commands.val \o <<BlockClose, FooterPiece>>)

\* the stepwise run and the function agree on every input
RunAgreesWithOutcome ==
  /\ pc = "done" => RunOutcome(tree).ok /\ file = RunOutcome(tree).val
  /\ (Failed /\ thrown # WriteError) => ~RunOutcome(tree).ok /\ thrown = RunOutcome(tree).err
  /\ thrown = WriteError => RunOutcome(tree).ok /\ crdpStr = RunOutcome(tree).val
  /\ (~RunOutcome(tree).ok /\ ~Failed) => pc # "done"

(***************************************************************************)
(* Reordering the input.  A second specification: `tree` stays the input   *)
(* as given and `other` is `tree` with sibling declarations transposed,    *)
(* where both transposed declarations are free to move by the list of C8,  *)
(* read by kind and text, or by the name a lookup compares.                *)
(***************************************************************************)
Foo == <<"F","o","o">>
Bar == <<"B","a","r">>

SwapSeq(s, a, b) ==
  [x \in 1..Len(s) |-> IF x = a THEN s[b] ELSE IF x = b THEN s[a] ELSE s[x]]

\* the sequence `base` with the n declarations `extras` put at the places `at`
Interleave(base, extras, at) ==
  [x \in 1..(Len(base) + Len(extras)) |->
     LET r == Cardinality({q \in at : q <= x})
     IN IF x \in at THEN extras[r] ELSE base[x - r]]

\* the declarations of `seq` at the indices S, in the order of `seq`
Pick(seq, S) ==
  [r \in 1..Cardinality(S) |->
     seq[CHOOSE q \in S : Cardinality({p \in S : p <= q}) = r]]

\* `base` with up to MaxExtras distinct declarations of E put in between
Interleavings(base, E) ==
  UNION {{Interleave(base, Pick(E, S), at) :
            S \in {P \in SUBSET (1..Len(E)) : Cardinality(P) = n},
            at \in {P \in SUBSET (1..(Len(base) + n)) : Cardinality(P) = n}} :
         n \in 1..MaxExtras}

\* declarations added at the top level
TopExtras ==
  <<InterfaceDeclaration(Foo, <<>>),
    ModuleDeclaration(Bar, <<InterfaceDeclaration(Foo, <<>>)>>),
    ModuleDeclaration(Net \o sClient, <<>>),
    InterfaceDeclaration(Net, <<>>)>>

\* declarations added inside the domain module
InnerExtras ==
  <<InterfaceDeclaration(Foo, <<>>),
    ModuleDeclaration(Bar, <<>>),
    ModuleDeclaration(Opt, <<>>)>>

\* declarations added beside the interfaces of a domain named ___a, which
\* are written __aClient and __aCommands
UnderscoreExtras ==
  <<InterfaceDeclaration(Und2 \o sClient, <<>>),
    InterfaceDeclaration(Und3 \o sClient, <<>>),
    InterfaceDeclaration(Und3 \o sCommands, <<>>)>>

PermTrees ==
  {SourceFile(decls) :
     decls \in Interleavings(<<CrdpClientOf(<<Net>>), DefaultModule(Net),
                               DefaultClient(Net), DefaultCommands(Net)>>, TopExtras)}
  \cup
  {SourceFile(decls) :
     decls \in Interleavings(<<CrdpClientOf(<<Und3>>)>> \o UnderscoreDecls(Und3, Und2),
                             UnderscoreExtras)}
  \cup
  {SourceFile(<<CrdpClientOf(<<Net>>), ModuleDeclaration(Net, inner),
                DefaultClient(Net), DefaultCommands(Net)>>) :
     inner \in Interleavings(DefaultModule(Net).body, InnerExtras)}

EnumeratedDomains(t) ==
  LET r == getCrdpDomainNames(t)
  IN IF r.ok THEN {r.val[x] : x \in 1..Len(r.val)} ELSE {}

\* the qualified names <domain>.<type> of the parameters of the commands
CommandParamRefs(t) ==
  UNION {LET itf == findFirstInterfaceOrModule(t, d \o sCommands)
         IN IF itf.kind # "InterfaceDeclaration" THEN {}
            ELSE {itf.members[k].type.parameters[1].type.typeName :
                    k \in {k \in 1..Len(itf.members) :
                             /\ IsCommandProperty(itf.members[k])
                             /\ Len(itf.members[k].type.parameters) = 1
                             /\ itf.members[k].type.parameters[1].type.kind = "TypeReference"
                             /\ Len(itf.members[k].type.parameters[1].type.typeName) = 2}} :
         d \in EnumeratedDomains(t)}

RECURSIVE ListedByKind(_, _)
\* x is one of the declarations C8 lists as not free to move: the CrdpClient
\* declaration, a <Domain>Client or <Domain>Commands interface of an enumerated
\* domain, a domain module or a parameter interface referenced by a command;
\* or x holds such a declaration
ListedByKind(t, x) ==
  \/ x.name = sCrdpClient
  \/ /\ x.kind = "InterfaceDeclaration"
     /\ \E d \in EnumeratedDomains(t) : x.name \in {d \o sClient, d \o sCommands}
  \/ /\ x.kind = "ModuleDeclaration"
     /\ \E tn \in CommandParamRefs(t) : x.name = tn[1]
  \/ /\ x.kind = "InterfaceDeclaration"
     /\ \E tn \in CommandParamRefs(t) : x.name = tn[2]
  \/ \E k \in 1..Len(x.body) : ListedByKind(t, x.body[k])

RECURSIVE ListedByName(_, _)
\* the name a lookup compares: of a module its text, of an interface its
\* escapedText
ComparedName(x) ==
  IF x.kind = "InterfaceDeclaration" THEN escapedText(x.name) ELSE x.name

\* the name x is compared by is one the run looks up, whatever the kind of
\* x, or x holds a declaration of which this is true
ListedByName(t, x) ==
  \/ ComparedName(x) = sCrdpClient
  \/ \E d \in EnumeratedDomains(t) : ComparedName(x) \in {d \o sClient, d \o sCommands}
  \/ \E tn \in CommandParamRefs(t) : ComparedName(x) \in {tn[1], tn[2]}
  \/ \E k \in 1..Len(x.body) : ListedByName(t, x.body[k])

\* x is free to move by one of the two readings of the list
Movable(x) == ~ListedByKind(other, x) \/ ~ListedByName(other, x)

\* transpose two top-level declarations
PermuteTopLevel ==
  /\ \E a, b \in 1..Len(other.body) :
       /\ a < b
       /\ Movable(other.body[a])
       /\ Movable(other.body[b])
       /\ other.body[a] # other.body[b]
       /\ other' = [other EXCEPT !.body = SwapSeq(@, a, b)]
  /\ UNCHANGED <<tree, pc, crdpDomainNames, i, j, curMap, outputStr, crdpStr,
                 thrown, file, writes, logged, steps>>

\* transpose two declarations of a top-level module
PermuteInModule ==
  /\ \E m \in 1..Len(other.body) :
       /\ other.body[m].kind = "ModuleDeclaration"
       /\ \E a, b \in 1..Len(other.body[m].body) :
            /\ a < b
            /\ Movable(other.body[m].body[a])
            /\ Movable(other.body[m].body[b])
            /\ other.body[m].body[a] # other.body[m].body[b]
            /\ other' = [other EXCEPT !.body[m].body = SwapSeq(@, a, b)]
  /\ UNCHANGED <<tree, pc, crdpDomainNames, i, j, curMap, outputStr, crdpStr,
                 thrown, file, writes, logged, steps>>

InitPerm ==
  /\ tree \in PermTrees
  /\ other = tree
  /\ pc = "getCrdpDomainNames"
  /\ crdpDomainNames = <<>>
  /\ i = 0
  /\ j = 0
  /\ curMap = <<>>
  /\ outputStr = <<>>
  /\ crdpStr = <<>>
  /\ thrown = NoError
  /\ file = OldFile
  /\ writes = 0
  /\ logged = FALSE
  /\ steps = <<>>

NextPerm == PermuteTopLevel \/ PermuteInModule

SpecPerm == InitPerm /\ [][NextPerm]_vars

\* the declarations at the places where t and o differ, top level or inside
\* a top-level module whose own place is kept
MovedDeclarations(t, o) ==
  UNION {IF t.body[k] = o.body[k] THEN {}
         ELSE IF /\ t.body[k].kind = "ModuleDeclaration"
                 /\ o.body[k].kind = "ModuleDeclaration"
                 /\ t.body[k].name = o.body[k].name
                 /\ Len(t.body[k].body) = Len(o.body[k].body)
         THEN {t.body[k].body[x] :
                 x \in {x \in 1..Len(t.body[k].body) :
                          t.body[k].body[x] # o.body[k].body[x]}}
         ELSE {t.body[k]} :
         k \in 1..Len(t.body)}

(***************************************************************************)
(* C8: two inputs that differ only by a permutation of declarations that   *)
(* are not the CrdpClient declaration, not a <Domain>Client or             *)
(* <Domain>Commands interface of an enumerated domain and not a domain     *)
(* module or parameter interface referenced by a command have the same     *)
(* outcome: the same text, or the same failure.                            *)
(***************************************************************************)
\* C8 as written: the same outcome when no moved declaration is, or holds,
\* a declaration of one of the listed kinds with one of the listed names
C8_SameOutcomeByKind ==
  (\A x \in MovedDeclarations(tree, other) : ~ListedByKind(tree, x))
    => RunOutcome(other) = RunOutcome(tree)

\* C8, amended: the same outcome when no moved declaration is compared by, or
\* holds a declaration compared by, a name the run looks up, whatever its kind
C8_SameOutcomeByName ==
  (\A x \in MovedDeclarations(tree, other) : ~ListedByName(tree, x))
    => RunOutcome(other) = RunOutcome(tree)

\* two interfaces of the listed kinds and names, neither compared by a name
\* the run looks up, have changed places
EscapedNamesMoved ==
  /\ other # tree
  /\ \A x \in MovedDeclarations(tree, other) :
       ListedByKind(tree, x) /\ ~ListedByName(tree, x)

\* a module and an interface, neither listed by name, have changed places and
\* the run succeeds
C8_Witness ==
  /\ other # tree
  /\ \A x \in MovedDeclarations(tree, other) : ~ListedByName(tree, x)
  /\ \E x, y \in MovedDeclarations(tree, other) :
       x.kind = "ModuleDeclaration" /\ y.kind = "InterfaceDeclaration"
  /\ RunOutcome(other).ok
  /\ Len(RunOutcome(other).val) >= 9

====
